---- MODULE Spec2Model ----
(***************************************************************************)
(* Model of the two ingestion pipelines of the repository:                 *)
(*   variant "A"  data_ingestion.py  (funding rounds, derived hash_code)   *)
(*   variant "B"  dataflow.py        (baby names, no derived column)       *)
(*                                                                         *)
(* A text line is a sequence of character code points, so that the         *)
(* cleaning, splitting and hashing of parse_method are computed character  *)
(* by character.  A record (Python dict) is a function from column names   *)
(* to values.                                                              *)
(***************************************************************************)
EXTENDS Integers, Sequences, FiniteSets, Bags, TLC

VARIABLES
    variant,    \* which program is executed: "A" or "B"
    line,       \* SpecParse: the string_input handed to parse_method
    result,     \* SpecParse: NotCalled, or the outcome of parse_method
    source,     \* the input file: a sequence of lines, header line(s) first
    table,      \* the sink table: [exists, schema, rows]
    before,     \* the sink table as it was when the current run started
    state,      \* run(): Idle, Initializing, Reading, Running, Completed or Aborted
    failure,    \* the fatal failure of the current run, "none" if there is none
    runs,       \* number of runs started so far
    pending,    \* indices of source lines read but not yet handed to a worker
    worker,     \* worker -> index of the line it holds, 0 when idle
    handed,     \* line index -> number of times it was handed to a worker
    emitted,    \* indices of lines whose record is emitted and not yet written
    inflight,   \* indices of records handed to the Writer, not yet acknowledged
    written,    \* line index -> number of times its record was added to the table
    prepared    \* the sink applied its create/write dispositions in this run

vars == <<variant, line, result, source, table, before, state, failure, runs,
          pending, worker, handed, emitted, inflight, written, prepared>>

parseVars == <<line, result>>
runVars == <<source, table, before, state, failure, runs, pending, worker,
             handed, emitted, inflight, written, prepared>>

(***************************************************************************)
(* Bounds of the model.                                                    *)
(***************************************************************************)
MaxLen == 4        \* longest line of the exhaustive character enumeration
MaxFields == 10    \* most comma separated values of a structured line
MaxLines == 2      \* most data lines of a source file
Parallelism == 2   \* number of parser workers
MaxRuns == 2       \* successive runs of the program

(***************************************************************************)
(* Characters.                                                             *)
(***************************************************************************)
Comma == 44
Quote == 34
CR == 13
LF == 10
AsciiMax == 127

\* 'a', 'b', the four characters parse_method looks at, and U+00E9
Chars == {97, 98, Comma, Quote, CR, LF, 233}

Min(a, b) == IF a < b THEN a ELSE b

(***************************************************************************)
(* re.sub(u'"', '', s): every double quote is removed.                     *)
(***************************************************************************)
RECURSIVE RemoveQuotes(_)
RemoveQuotes(s) ==
    IF s = <<>> THEN <<>>
    ELSE IF Head(s) = Quote THEN RemoveQuotes(Tail(s))
    ELSE <<Head(s)>> \o RemoveQuotes(Tail(s))

(***************************************************************************)
(* re.sub('\r\n', '', s): one left-to-right pass over the input; each      *)
(* non-overlapping occurrence of CR LF is removed and the scan resumes     *)
(* after it.  The output is not scanned again.                             *)
(***************************************************************************)
RECURSIVE RemoveCRLF(_)
RemoveCRLF(s) ==
    IF Len(s) < 2 THEN s
    ELSE IF s[1] = CR /\ s[2] = LF THEN RemoveCRLF(SubSeq(s, 3, Len(s)))
    ELSE <<s[1]>> \o RemoveCRLF(Tail(s))

\* the argument of re.split in parse_method: quotes first, then CR LF
Clean(s) == RemoveCRLF(RemoveQuotes(s))

(***************************************************************************)
(* re.split(",", s): the list of the pieces between commas; a string with  *)
(* c commas gives c + 1 pieces, the empty string gives [''].               *)
(***************************************************************************)
RECURSIVE SplitAcc(_, _, _)
SplitAcc(s, cur, acc) ==
    IF s = <<>> THEN Append(acc, cur)
    ELSE IF Head(s) = Comma THEN SplitAcc(Tail(s), <<>>, Append(acc, cur))
    ELSE SplitAcc(Tail(s), Append(cur, Head(s)), acc)

Split(s) == SplitAcc(s, <<>>, <<>>)

(***************************************************************************)
(* dict(zip(names, values)): the i-th name maps to the i-th value, for i   *)
(* up to the length of the shorter sequence.  The names are distinct.      *)
(***************************************************************************)
ZipDict(names, values) ==
    LET n == Min(Len(names), Len(values))
    IN  [k \in {names[i] : i \in 1..n} |->
            values[CHOOSE i \in 1..n : names[i] = k]]

(***************************************************************************)
(* hashlib.sha256(v).hexdigest().  v is a unicode string (ReadFromText     *)
(* decodes the file as UTF-8), which sha256 first encodes with the ASCII   *)
(* codec: a character above 127 raises UnicodeEncodeError.  The digest is  *)
(* abstracted to 8 bits, printed as two lower-case hexadecimal digits: a   *)
(* deterministic function of the characters of v and of nothing else.      *)
(***************************************************************************)
HexDigits == <<48, 49, 50, 51, 52, 53, 54, 55, 56, 57, 97, 98, 99, 100, 101, 102>>

CanEncodeAscii(v) == \A i \in 1..Len(v) : v[i] <= AsciiMax

RECURSIVE Sha256Acc(_, _)
Sha256Acc(v, h) ==
    IF v = <<>> THEN h
    ELSE Sha256Acc(Tail(v), (h * 31 + Head(v) + 7) % 256)

HexDigest(v) ==
    LET h == Sha256Acc(v, 0)
    IN  <<HexDigits[(h \div 16) + 1], HexDigits[(h % 16) + 1]>>

(***************************************************************************)
(* The column names parse_method zips against, and the sink schemas.       *)
(***************************************************************************)
ColumnsA == <<"permlink", "numEmps", "category", "city", "state",
              "fundedDate", "raisedAmt", "raisedCurrency", "round">>

ColumnsB == <<"state", "gender", "year", "name", "number", "created_date">>

\* the schema strings 'name:TYPE,name:TYPE,...' as sequences of <<name, type>>
SchemaA == <<<<"hash_code", "STRING">>, <<"permalink", "STRING">>,
             <<"numEmps", "STRING">>, <<"category", "STRING">>,
             <<"city", "STRING">>, <<"state", "STRING">>,
             <<"fundedDate", "STRING">>, <<"raisedAmt", "STRING">>,
             <<"raisedCurrency", "STRING">>, <<"round", "STRING">>>>

SchemaB == <<<<"state", "STRING">>, <<"gender", "STRING">>, <<"year", "STRING">>,
             <<"name", "STRING">>, <<"number", "STRING">>,
             <<"created_date", "STRING">>>>

Columns(v) == IF v = "A" THEN ColumnsA ELSE ColumnsB
Schema(v) == IF v = "A" THEN SchemaA ELSE SchemaB
Names(s) == {s[i] : i \in 1..Len(s)}
SchemaNames(s) == {s[i][1] : i \in 1..Len(s)}

(***************************************************************************)
(* parse_method.  The outcome is [raised |-> FALSE, row |-> the dict] or   *)
(* [raised |-> TRUE, row |-> <<>>] when an exception leaves the method.    *)
(***************************************************************************)
Returned(row) == [called |-> TRUE, raised |-> FALSE, row |-> row]
Raised == [called |-> TRUE, raised |-> TRUE, row |-> <<>>]
NotCalled == [called |-> FALSE, raised |-> FALSE, row |-> <<>>]

\* variation: the digest is computed whether or not fundedDate is present
parse_method_A_HashAlways(string_input) ==
    LET values == Split(Clean(string_input))
        row == ZipDict(ColumnsA, values)
        date == IF "fundedDate" \in DOMAIN row THEN row["fundedDate"] ELSE <<>>
    IN  IF CanEncodeAscii(date)
        THEN Returned(("hash_code" :> HexDigest(date)) @@ row)
        ELSE Raised

\* data_ingestion.py
parse_method_A(string_input) ==
    LET values == Split(Clean(string_input))
        row == ZipDict(ColumnsA, values)
    IN  IF "fundedDate" \in DOMAIN row
        THEN IF CanEncodeAscii(row["fundedDate"])
             THEN Returned(("hash_code" :> HexDigest(row["fundedDate"])) @@ row)
             ELSE Raised
        ELSE Returned(row)

\* dataflow.py
parse_method_B(string_input) ==
    LET values == Split(Clean(string_input))
        row == ZipDict(ColumnsB, values)
    IN  Returned(row)

parse_method(v, string_input) ==
    IF v = "A" THEN parse_method_A(string_input) ELSE parse_method_B(string_input)

(***************************************************************************)
(* Inputs of parse_method.                                                 *)
(*   RawLines         every string over Chars of length <= MaxLen          *)
(*   StructuredLines  n <= MaxFields values joined by commas; the i-th     *)
(*                    value is empty or the single letter number i ('A',   *)
(*                    'B', ...), and the 6th and 7th may also be U+00E9    *)
(***************************************************************************)
RawLines == UNION {[1..n -> Chars] : n \in 0..MaxLen}

FieldChoices(i) ==
    {<<>>, <<64 + i>>} \cup (IF i \in {6, 7} THEN {<<233>>} ELSE {})

RECURSIVE FieldSeqs(_)
FieldSeqs(n) ==
    IF n = 0 THEN {<<>>}
    ELSE {Append(p, c) : p \in FieldSeqs(n - 1), c \in FieldChoices(n)}

RECURSIVE Join(_)
Join(fields) ==
    IF fields = <<>> THEN <<>>
    ELSE IF Len(fields) = 1 THEN fields[1]
    ELSE fields[1] \o <<Comma>> \o Join(Tail(fields))

StructuredLines == UNION {{Join(f) : f \in FieldSeqs(n)} : n \in 1..MaxFields}

(***************************************************************************)
(* The source files and the prior states of the sink table.                *)
(***************************************************************************)
HeaderLines == 1

HeaderLine == <<104>>
\* 'A,B,C,D,E,F,G,H,I,J': ten values, the documented form of variant A
FullLine == Join([i \in 1..10 |-> <<64 + i>>])
\* 'a,b': fewer values than columns
ShortLine == <<97, Comma, 98>>
\* ',,,,,' followed by U+00E9: the 6th value is not ASCII
AccentLine == <<Comma, Comma, Comma, Comma, Comma, 233>>

SampleLines == {FullLine, ShortLine, AccentLine}

\* the empty file, and a header followed by at most MaxLines data lines
Sources ==
    {<<>>} \cup
    UNION {{<<HeaderLine>> \o d : d \in [1..n -> SampleLines]} : n \in 0..MaxLines}

NoTable == [exists |-> FALSE, schema |-> <<>>, rows |-> EmptyBag]
OtherSchema == <<<<"id", "INTEGER">>>>

\* a table left by somebody else: absent, or present with the declared or
\* another schema, empty or holding a row that this program also produces
PriorTables(v) ==
    {NoTable} \cup
    {[exists |-> TRUE, schema |-> sc, rows |-> r] :
        sc \in {Schema(v), OtherSchema},
        r \in {EmptyBag, SetToBag({parse_method(v, ShortLine).row})}}

Workers == 1..Parallelism

(***************************************************************************)
(* ReadFromText(known_args.input, skip_header_lines=1): the indices of the *)
(* lines of the file that enter the pipeline.                              *)
(***************************************************************************)
\* variation: no header line is skipped
DataLinesNoSkip(src) == 1..Len(src)

DataLines(src) == {i \in 1..Len(src) : i > HeaderLines}

(***************************************************************************)
(* WriteToBigQuery dispositions.                                           *)
(*   CREATE_IF_NEEDED  "Creates the table in BigQuery if it does not yet   *)
(*                      exist": an existing table is taken as it is        *)
(*   WRITE_TRUNCATE    "Deletes all data in the BigQuery table before      *)
(*                      writing"                                           *)
(***************************************************************************)
\* variation: the table is created without the declared columns
CreateWithoutSchema(t, schema) ==
    IF t.exists THEN t
    ELSE [exists |-> TRUE, schema |-> <<>>, rows |-> EmptyBag]

CreateIfNeeded(t, schema) ==
    IF t.exists THEN t
    ELSE [exists |-> TRUE, schema |-> schema, rows |-> EmptyBag]

\* variation: WRITE_APPEND, the rows of the table are kept
WriteAppend(t) == t

WriteTruncate(t) == [t EXCEPT !.rows = EmptyBag]

\* one row appended to the table
InsertRow(t, row) == [t EXCEPT !.rows = @ (+) SetToBag({row})]

\* the records that a run over src produces, as a bag
RECURSIVE RecordsOf(_, _, _)
RecordsOf(v, src, idx) ==
    IF idx = {} THEN EmptyBag
    ELSE LET i == CHOOSE j \in idx : TRUE
         IN  SetToBag({parse_method(v, src[i]).row})
             (+) RecordsOf(v, src, idx \ {i})

(***************************************************************************)
(* p.run().wait_until_finish(): the job is done when every line was read   *)
(* and transformed and every record handed to the sink is acknowledged.    *)
(***************************************************************************)
\* variation: the job is done as soon as every line was transformed
DrainedEarly ==
    /\ prepared
    /\ pending = {}
    /\ \A w \in Workers : worker[w] = 0

Drained ==
    /\ prepared
    /\ pending = {}
    /\ \A w \in Workers : worker[w] = 0
    /\ emitted = {}
    /\ inflight = {}

(***************************************************************************)
(* Initial states.                                                         *)
(***************************************************************************)
FreshRun(src) ==
    /\ pending = {}
    /\ worker = [w \in Workers |-> 0]
    /\ handed = [i \in 1..Len(src) |-> 0]
    /\ emitted = {}
    /\ inflight = {}
    /\ written = [i \in 1..Len(src) |-> 0]
    /\ prepared = FALSE
    /\ failure = "none"

\* run() has been called once, on any source and any prior sink table
Init ==
    /\ variant \in {"A", "B"}
    /\ line = <<>>
    /\ result = NotCalled
    /\ source \in Sources
    /\ table \in PriorTables(variant)
    /\ before = table
    /\ state = "Initializing"
    /\ runs = 1
    /\ FreshRun(source)

\* parse_method is about to be called on any line
InitParse ==
    /\ variant \in {"A", "B"}
    /\ line \in RawLines \cup StructuredLines
    /\ result = NotCalled
    /\ source = <<>>
    /\ table = NoTable
    /\ before = table
    /\ state = "Idle"
    /\ runs = 0
    /\ FreshRun(source)

(***************************************************************************)
(* SpecParse: one call of parse_method.                                    *)
(***************************************************************************)
Parse ==
    /\ state = "Idle"
    /\ ~result.called
    /\ result' = parse_method(variant, line)
    /\ UNCHANGED <<variant, line>>
    /\ UNCHANGED runVars

(***************************************************************************)
(* Spec: run().                                                            *)
(***************************************************************************)
\* a fatal failure: the exception leaves run(), whatever was in progress
Abort(kind) ==
    /\ state' = "Aborted"
    /\ failure' = kind

\* parser.parse_known_args(argv): --project, --jobname, --staging_location
\* and --temp_location are required; argparse exits when one is missing
ParseArgs ==
    /\ state = "Initializing"
    /\ \E ok \in BOOLEAN :
          IF ok THEN state' = "Reading" /\ failure' = failure
          ELSE Abort("config")
    /\ UNCHANGED <<variant, source, table, before, runs, pending, worker,
                   handed, emitted, inflight, written, prepared>>
    /\ UNCHANGED parseVars

\* 'Read from a File': the source is opened and its lines after the header
\* become the input of the parse stage; an unreadable source fails the job
OpenSource ==
    /\ state = "Reading"
    /\ \E ok \in BOOLEAN :
          IF ok
          THEN /\ state' = "Running"
               /\ failure' = failure
               /\ pending' = DataLines(source)
          ELSE /\ Abort("source")
               /\ pending' = pending
    /\ UNCHANGED <<variant, source, table, before, runs, worker, handed,
                   emitted, inflight, written, prepared>>
    /\ UNCHANGED parseVars

\* a worker of the parse stage receives the next line
Take(w) ==
    /\ state = "Running"
    /\ worker[w] = 0
    /\ \E i \in pending :
          /\ worker' = [worker EXCEPT ![w] = i]
          /\ pending' = pending \ {i}
          /\ handed' = [handed EXCEPT ![i] = @ + 1]
    /\ UNCHANGED <<variant, source, table, before, state, failure, runs,
                   emitted, inflight, written, prepared>>
    /\ UNCHANGED parseVars

\* 'String to BigQuery Row': beam.Map(lambda s: data_ingestion.parse_method(s)).
\* The lambda catches nothing: an exception of parse_method fails the job.
Transform(w) ==
    /\ state = "Running"
    /\ worker[w] # 0
    /\ LET r == parse_method(variant, source[worker[w]])
       IN  IF r.raised
           THEN /\ Abort("parse")
                /\ UNCHANGED <<worker, emitted>>
           ELSE /\ emitted' = emitted \cup {worker[w]}
                /\ worker' = [worker EXCEPT ![w] = 0]
                /\ UNCHANGED <<state, failure>>
    /\ UNCHANGED <<variant, source, table, before, runs, pending, handed,
                   inflight, written, prepared>>
    /\ UNCHANGED parseVars

\* 'Write to BigQuery': the sink applies its dispositions once per run,
\* before the first row is written; an unreachable sink fails the job
PrepareSink ==
    /\ state = "Running"
    /\ ~prepared
    /\ \E ok \in BOOLEAN :
          IF ok
          THEN /\ table' = WriteTruncate(CreateIfNeeded(table, Schema(variant)))
               /\ prepared' = TRUE
               /\ UNCHANGED <<state, failure>>
          ELSE /\ Abort("sink")
               /\ UNCHANGED <<table, prepared>>
    /\ UNCHANGED <<variant, source, before, runs, pending, worker, handed,
                   emitted, inflight, written>>
    /\ UNCHANGED parseVars

\* an emitted record is handed to the sink
Write(i) ==
    /\ state = "Running"
    /\ prepared
    /\ i \in emitted
    /\ \E ok \in BOOLEAN :
          IF ok
          THEN /\ emitted' = emitted \ {i}
               /\ inflight' = inflight \cup {i}
               /\ UNCHANGED <<state, failure>>
          ELSE /\ Abort("sink")
               /\ UNCHANGED <<emitted, inflight>>
    /\ UNCHANGED <<variant, source, table, before, runs, pending, worker,
                   handed, written, prepared>>
    /\ UNCHANGED parseVars

\* the sink acknowledges a record: its row is in the table
Ack(i) ==
    /\ state = "Running"
    /\ i \in inflight
    /\ inflight' = inflight \ {i}
    /\ table' = InsertRow(table, parse_method(variant, source[i]).row)
    /\ written' = [written EXCEPT ![i] = @ + 1]
    /\ UNCHANGED <<variant, source, before, state, failure, runs, pending,
                   worker, handed, emitted, prepared>>
    /\ UNCHANGED parseVars

\* wait_until_finish() returns
Finish ==
    /\ state = "Running"
    /\ Drained
    /\ state' = "Completed"
    /\ UNCHANGED <<variant, source, table, before, failure, runs, pending,
                   worker, handed, emitted, inflight, written, prepared>>
    /\ UNCHANGED parseVars

\* the program is run again on the same source
StartRun ==
    /\ state \in {"Completed", "Aborted"}
    /\ runs < MaxRuns
    /\ runs' = runs + 1
    /\ state' = "Initializing"
    /\ before' = table
    /\ pending' = {}
    /\ worker' = [w \in Workers |-> 0]
    /\ handed' = [i \in 1..Len(source) |-> 0]
    /\ emitted' = {}
    /\ inflight' = {}
    /\ written' = [i \in 1..Len(source) |-> 0]
    /\ prepared' = FALSE
    /\ failure' = "none"
    /\ UNCHANGED <<variant, source, table>>
    /\ UNCHANGED parseVars

Next ==
    \/ ParseArgs
    \/ OpenSource
    \/ \E w \in Workers : Take(w)
    \/ \E w \in Workers : Transform(w)
    \/ PrepareSink
    \/ \E i \in emitted : Write(i)
    \/ \E i \in inflight : Ack(i)
    \/ Finish
    \/ StartRun

Spec == Init /\ [][Next]_vars

NextParse == Parse

SpecParse == InitParse /\ [][NextParse]_vars

(***************************************************************************)
(* Properties of run(), checked under Spec.                                *)
(***************************************************************************)
Idle == \A w \in Workers : worker[w] = 0

\* C1: truncate-then-write.  Whatever the table held before, when a run is
\* Completed the rows of the table are exactly the records of that run: the
\* bag of parse_method's results over the data lines of the source, each
\* once, with no row of an earlier run or of an earlier state.
TruncateThenWrite ==
    state = "Completed" =>
        table.rows = RecordsOf(variant, source, DataLines(source))

\* a second run is Completed over a table that held the rows of a first run
TruncateThenWriteWitness ==
    /\ state = "Completed"
    /\ runs = 2
    /\ DataLines(source) # {}
    /\ before.exists
    /\ before.rows = RecordsOf(variant, source, DataLines(source))
    /\ table.rows = before.rows

\* C2: in every interleaving of the workers no line is handed to a worker
\* twice, a header line is never handed to a worker, no record is written to
\* the sink twice, and when the run is Completed every line after the header
\* was handed to a worker exactly once.
ExactlyOnce ==
    \A i \in 1..Len(source) :
        /\ handed[i] <= 1
        /\ written[i] <= 1
        /\ i <= HeaderLines => handed[i] = 0 /\ written[i] = 0
        /\ (state = "Completed" /\ i > HeaderLines) => handed[i] = 1

\* a run over two data lines is Completed, each line handed and written once
ExactlyOnceWitness ==
    /\ state = "Completed"
    /\ Len(source) = HeaderLines + 2
    /\ \A i \in DataLines(source) : handed[i] = 1 /\ written[i] = 1

\* C8 as stated: when a run is Completed the schema of the table is the
\* declared schema, whether the table was absent or existed with any schema.
SchemaAlwaysDeclared ==
    state = "Completed" => table.exists /\ table.schema = Schema(variant)

\* C8 as amended: when a run is Completed the table exists, and its schema
\* is the declared schema if the table was absent when the run started or
\* had the declared schema then.
SchemaDeclaredWhenCreated ==
    state = "Completed" =>
        /\ table.exists
        /\ (~before.exists \/ before.schema = Schema(variant))
              => table.schema = Schema(variant)

\* a run that found no table is Completed: the run created the table
SchemaDeclaredWitness ==
    /\ state = "Completed"
    /\ ~before.exists
    /\ table.exists
    /\ table.schema = Schema(variant)

\* C9: a run is Completed only when every line was read and transformed and
\* every record handed to the Writer was acknowledged (none is in flight),
\* and a run in which a fatal failure occurred is Aborted, never Completed.
CompletedOnlyWhenAcknowledged ==
    /\ state = "Completed" =>
          /\ failure = "none"
          /\ pending = {}
          /\ Idle
          /\ emitted = {}
          /\ inflight = {}
          /\ \A i \in DataLines(source) : handed[i] = 1 /\ written[i] = 1
    /\ failure # "none" => state = "Aborted"

\* a run that wrote two records is Completed
CompletedWitness ==
    /\ state = "Completed"
    /\ failure = "none"
    /\ BagCardinality(table.rows) = 2

\* C10 as stated: a failure of parse_method on one line never aborts the
\* run; a run aborts only for a configuration, source or sink failure.
ParseFailureDoesNotAbort ==
    state = "Aborted" => failure \in {"config", "source", "sink"}

(***************************************************************************)
(* Properties of parse_method, checked under SpecParse.                    *)
(***************************************************************************)
\* the values the cleaned line splits into, and their number
Vals == Split(Clean(line))
N == Len(Vals)
K == Len(Columns(variant))
Has(row, k, v) == k \in DOMAIN row /\ row[k] = v

\* C3 as stated: parse_method raises no error for any number n of values,
\* the keys of the record other than hash_code are the first min(n, k)
\* column names, and the i-th of them maps to the i-th value.
PositionalZipNoError ==
    result.called =>
        /\ ~result.raised
        /\ DOMAIN result.row \ {"hash_code"} =
              {Columns(variant)[i] : i \in 1..Min(N, K)}
        /\ \A i \in 1..Min(N, K) : result.row[Columns(variant)[i]] = Vals[i]

\* C4 as stated: no value of the record holds a double quote or a carriage
\* return followed by a linefeed.
NoQuoteNoCRLF ==
    (result.called /\ ~result.raised) =>
        \A k \in DOMAIN result.row :
            LET v == result.row[k]
            IN  \A j \in 1..Len(v) :
                    /\ v[j] # Quote
                    /\ ~(j < Len(v) /\ v[j] = CR /\ v[j + 1] = LF)

DocumentedMapping ==
    (variant = "A" /\ result.called /\ N = 10) =>
        /\ ~result.raised
        /\ Has(result.row, "permalink", Vals[1])
        /\ Has(result.row, "numEmps", Vals[3])
        /\ Has(result.row, "category", Vals[4])
        /\ Has(result.row, "city", Vals[5])
        /\ Has(result.row, "state", Vals[6])
        /\ Has(result.row, "fundedDate", Vals[7])
        /\ Has(result.row, "raisedAmt", Vals[8])
        /\ Has(result.row, "raisedCurrency", Vals[9])
        /\ Has(result.row, "round", Vals[10])
        /\ Has(result.row, "hash_code", HexDigest(Vals[7]))

\* C7 as stated: every key of a record is a column of the sink schema of its
\* variant, and the keys of the record of a full-width line are exactly the
\* columns of the schema.
KeysAreSchemaColumns ==
    (result.called /\ ~result.raised) =>
        /\ DOMAIN result.row \subseteq SchemaNames(Schema(variant))
        /\ N >= K => DOMAIN result.row = SchemaNames(Schema(variant))

====
